---- MODULE Spec2Model ----
(***************************************************************************)
(* A model of frabit/command_wrappers.py: StreamLineProcessor and Command  *)
(* (the retry engine get_output, one attempt execute, the draining loop    *)
(* pipe_processor_loop and enable_signal_forwarding), together with the    *)
(* child process and the pipes the Command talks to.                       *)
(*                                                                         *)
(* Python's None is the empty set and a present value x is {x}.            *)
(***************************************************************************)
EXTENDS Integers, Sequences, FiniteSets, TLC

None == {}
Some(x) == {x}
The(s) == CHOOSE x \in s : TRUE

\* ------------------------------------------------------------------ bounds
\* The greatest retry_times a Command is constructed with.
MaxRetry == 2
\* The greatest number of bytes one child writes, both streams together.
MaxData == 1
\* The same for the children of SpecIO, which write any of Bytes.
MaxBytes == 2
\* The same for the children of FairSpecDrain, which write the byte "a" only.
MaxDrain == 3
\* The greatest number of bytes one os.read returns (4096 in the source).
ReadMax == 2
\* The greatest number of signals delivered to the controller.
MaxSignals == 2
\* The greatest length of an argument given to shell_quote.
MaxArg == 3
\* The number of bytes a pipe holds before a write to it blocks, the greatest
\* number of bytes given as stdin, and the greatest number of bytes a child
\* writes before it reads its input again.
PipeCap == 1
MaxInput == 2
MaxOwed == 2

\* ------------------------------------------------------- bytes and text
\* The bytes a child may write: an ASCII letter, the newline, and the lead
\* and continuation bytes of the two-byte UTF-8 sequence C3 A9.
NL == "\n"
Lead == "C3"
Cont == "A9"
Bytes == {"a", NL, Lead, Cont}
AsciiBytes == {"a", NL}
\* The characters bytes decode to: "a", the newline, U+00E9 and the
\* replacement character U+FFFD.
EAcute == "U+00E9"
Replacement == "U+FFFD"

Streams == <<"stdout", "stderr">>
StreamSet == {"stdout", "stderr"}

RECURSIVE Decode(_)
\* bytes.decode('utf-8', 'replace') of one chunk: a lead byte with its
\* continuation byte is one character; a lead byte followed by anything else
\* or by the end of the chunk, and a continuation byte on its own, are each
\* replaced by U+FFFD.
Decode(data) ==
  IF data = <<>> THEN <<>>
  ELSE IF Head(data) = Lead
       THEN IF Len(data) >= 2 /\ data[2] = Cont
            THEN <<EAcute>> \o Decode(SubSeq(data, 3, Len(data)))
            ELSE <<Replacement>> \o Decode(Tail(data))
  ELSE IF Head(data) = Cont
       THEN <<Replacement>> \o Decode(Tail(data))
  ELSE <<Head(data)>> \o Decode(Tail(data))

HasNL(text) == \E i \in 1..Len(text) : text[i] = NL

FirstNL(text) == CHOOSE i \in 1..Len(text) :
                    text[i] = NL /\ \A j \in 1..(i - 1) : text[j] # NL

RECURSIVE Split(_)
\* str.split('\n'): the pieces between newlines, always at least one.
Split(text) ==
  IF ~HasNL(text) THEN <<text>>
  ELSE <<SubSeq(text, 1, FirstNL(text) - 1)>>
         \o Split(SubSeq(text, FirstNL(text) + 1, Len(text)))

RECURSIVE Join(_)
\* '\n'.join(lines)
Join(lines) ==
  IF lines = <<>> THEN <<>>
  ELSE IF Len(lines) = 1 THEN lines[1]
  ELSE lines[1] \o <<NL>> \o Join(Tail(lines))

\* StreamProcess with nothing handed to the handler at the end of the file.
StreamProcessNoFlush(b, data) ==
  IF data = <<>>
  THEN [eof |-> TRUE, buf |-> b, handled |-> <<>>]
  ELSE LET nb == b \o Decode(data) IN
       IF ~HasNL(nb)
       THEN [eof |-> FALSE, buf |-> nb, handled |-> <<>>]
       ELSE LET tmp == Split(nb) IN
            [eof |-> FALSE, buf |-> tmp[Len(tmp)],
             handled |-> SubSeq(tmp, 1, Len(tmp) - 1)]

\* StreamLineProcessor.process on buffer b when os.read returned data: whether
\* it reports end of file, the new buffer, and the lines handed to the handler.
StreamProcess(b, data) ==
  IF data = <<>>
  THEN [eof |-> TRUE, buf |-> b, handled |-> <<b>>]
  ELSE LET nb == b \o Decode(data) IN
       IF ~HasNL(nb)
       THEN [eof |-> FALSE, buf |-> nb, handled |-> <<>>]
       ELSE LET tmp == Split(nb) IN
            [eof |-> FALSE, buf |-> tmp[Len(tmp)],
             handled |-> SubSeq(tmp, 1, Len(tmp) - 1)]

\* ------------------------------------------------------------------ state
VARIABLES
  \* the Command object
  pipe, ret, out, err, check, allowed_retval, retry_times, retry_handler,
  \* the invocation in progress
  pc, entry, kwargs, attempt, exc, outcome, lines, processors, ready, buf,
  local_pipe, interrupted,
  \* the child process and its pipes
  child,
  \* the controller's signal table and the closure of _handler
  handlers, signal_id, old_handler, exit_status,
  \* what the signal handler has done so far
  nsignals, last_delivery, chained, steps,
  \* what the invocation has done so far
  \* (seen: what the retry_handler has been given, while its call lasts)
  spawned, slept, called, seen,
  \* a second thread that calls execute on the same Command, and its child
  pc2, local_pipe2, child2,
  \* the argument of shell_quote and what it returned
  arg, quoted

cmdvars == <<pipe, ret, out, err>>
cfgvars == <<check, allowed_retval, retry_times, retry_handler>>
framevars == <<pc, entry, kwargs, attempt, exc, outcome, lines, processors,
               ready, buf, local_pipe, interrupted>>
sigvars == <<handlers, signal_id, old_handler, exit_status, nsignals,
             last_delivery, chained, steps>>
ghostvars == <<spawned, slept, called, seen>>
othervars == <<pc2, local_pipe2, child2>>
quotevars == <<arg, quoted>>
vars == <<cmdvars, cfgvars, framevars, child, sigvars, ghostvars, othervars,
          quotevars>>

NoLines == [s \in StreamSet |-> <<>>]
\* A child and its pipes: what it has written on each stream and how much of
\* that is unread, its own ends of the streams (wopen), the descriptors the
\* Command reads them from (ropen), and its input: the bytes written into
\* its input pipe (stdin), how many of them it has read (stdin_read), and
\* the bytes it will write on a stream before it reads again (owes).
NoChild == [pid |-> 0, state |-> "none", code |-> 0,
            written |-> NoLines, unread |-> [s \in StreamSet |-> 0],
            wopen |-> [s \in StreamSet |-> FALSE],
            ropen |-> [s \in StreamSet |-> FALSE],
            stdin |-> <<>>, stdin_open |-> FALSE, stdin_read |-> 0,
            owes |-> [s \in StreamSet |-> 0], signalled |-> FALSE]
NoDetail == [ret |-> None, out |-> None, err |-> None]
Pending == [kind |-> "pending", val |-> NoDetail]
NoKwargs == [check |-> None, allowed_retval |-> None, stdin |-> None,
             unexpected |-> FALSE]
\* The exit codes a child ends with.
ExitCodes == {0, 1, 2}

\* The signals of the model and the dispositions signal.getsignal can return.
SIGINT == 2
SIGTERM == 15
Signals == {SIGINT, SIGTERM}
Dispositions == {"SIG_DFL", "SIG_IGN", "callable"}

\* Command.__init__: no pipe, no result; the configuration as constructed.
InitWith(checks, retries, retry_handlers, alloweds, tables) ==
  /\ pipe = None /\ ret = None /\ out = None /\ err = None
  /\ check \in checks
  /\ allowed_retval \in alloweds
  /\ retry_times \in retries
  /\ retry_handler \in retry_handlers
  /\ pc = "idle" /\ entry = "none" /\ kwargs = NoKwargs /\ attempt = 0
  /\ exc = None /\ outcome = Pending /\ lines = NoLines
  /\ processors = <<>> /\ ready = <<>> /\ buf = NoLines /\ local_pipe = None
  /\ interrupted = FALSE
  /\ child = NoChild
  /\ handlers \in tables
  /\ signal_id = None /\ old_handler = None /\ exit_status = None
  /\ spawned = 0 /\ slept = 0 /\ called = <<>> /\ seen = None
  /\ nsignals = 0 /\ last_delivery = None /\ chained = 0 /\ steps = <<>>
  /\ pc2 = "idle" /\ local_pipe2 = None /\ child2 = NoChild
  /\ arg = <<>> /\ quoted = None

\* ------------------------------------------------------- the child process
\* The child writes byte b on stream s (at most limit bytes in all).
ChildWrite(s, b, limit) ==
  /\ child.state = "running"
  /\ child.wopen[s]
  /\ Len(child.written["stdout"]) + Len(child.written["stderr"]) < limit
  /\ child' = [child EXCEPT !.written[s] = Append(@, b),
                            !.unread[s] = @ + 1]
  /\ UNCHANGED <<cmdvars, cfgvars, othervars, quotevars, framevars, sigvars,
                 ghostvars>>

\* The child closes its end of stream s.
ChildClose(s) ==
  /\ child.state = "running"
  /\ child.wopen[s]
  /\ child' = [child EXCEPT !.wopen[s] = FALSE]
  /\ UNCHANGED <<cmdvars, cfgvars, othervars, quotevars, framevars, sigvars,
                 ghostvars>>

\* The child exits with code c, which closes whatever it still had open.
ChildExit(c) ==
  /\ child.state = "running"
  /\ child' = [child EXCEPT !.state = "exited", !.code = c,
                            !.wopen = [s \in StreamSet |-> FALSE]]
  /\ UNCHANGED <<cmdvars, cfgvars, othervars, quotevars, framevars, sigvars,
                 ghostvars>>

\* --------------------------------------------------------------- Command
\* EffCheck when the override of the call is ignored.
EffCheckOfCommand == check
\* kwargs.pop('check', self.check)
EffCheck == IF kwargs.check = None THEN check ELSE The(kwargs.check)
\* EffAllowed when the override of the call is ignored.
EffAllowedOfCommand == allowed_retval
\* kwargs.pop('allowed_retval', self.allowed_retval)
EffAllowed == IF kwargs.allowed_retval = None THEN allowed_retval
              ELSE The(kwargs.allowed_retval)

\* dict(ret=self.ret, out=self.out, err=self.err) of check_return_value
Detail(r, o, e) == [ret |-> r, out |-> o, err |-> e]
\* Refused for the exit codes of children that ended by themselves only.
RefusedPositiveOnly(r, allowed) == The(r) > 0 /\ The(r) \notin allowed
\* check_return_value: whether the code r is refused.
Refused(r, allowed) == The(r) \notin allowed

\* The call ends with outcome o (a return or a raise) and its locals are gone.
Leave(o) ==
  /\ outcome' = o
  /\ pc' = "idle"
  /\ processors' = <<>> /\ ready' = <<>> /\ buf' = NoLines
  /\ lines' = NoLines /\ local_pipe' = None /\ interrupted' = FALSE

\* A public entry point e (execute, get_output, __call__) is called with the
\* named overrides kw; get_output starts with attempt = 0.
Call(e, kw) ==
  /\ pc = "idle"
  /\ entry' = e /\ kwargs' = kw /\ attempt' = 0 /\ exc' = None
  /\ outcome' = Pending
  /\ spawned' = 0 /\ slept' = 0 /\ called' = <<>> /\ seen' = None
  /\ pc' = "attempting"
  /\ UNCHANGED <<cmdvars, cfgvars, othervars, quotevars, lines, processors,
                 ready, interrupted, buf, local_pipe, child, sigvars>>

\* execute_enter with the lists of lines made once, not once per attempt.
execute_enter_keeps_lines ==
  /\ pc = "attempting"
  /\ IF kwargs.unexpected
     THEN /\ Leave([kind |-> "TypeError", val |-> NoDetail])
          /\ UNCHANGED <<ret, out, err>>
     ELSE /\ ret' = None /\ out' = None /\ err' = None
          /\ lines' = IF attempt = 0 THEN NoLines ELSE lines
          /\ pc' = "build_pipe"
          /\ UNCHANGED <<outcome, processors, ready, interrupted, buf,
                         local_pipe>>
  /\ UNCHANGED <<pipe, cfgvars, othervars, quotevars, entry, kwargs, attempt,
                 exc, child, sigvars, ghostvars>>

\* execute_enter without "Reset status".
execute_enter_no_reset ==
  /\ pc = "attempting"
  /\ IF kwargs.unexpected
     THEN /\ Leave([kind |-> "TypeError", val |-> NoDetail])
          /\ UNCHANGED <<ret, out, err>>
     ELSE /\ lines' = NoLines
          /\ pc' = "build_pipe"
          /\ UNCHANGED <<ret, out, err, outcome, processors, ready,
                         interrupted, buf, local_pipe>>
  /\ UNCHANGED <<pipe, cfgvars, othervars, quotevars, entry, kwargs, attempt,
                 exc, child, sigvars, ghostvars>>

\* execute_enter with "Reset status" done before the keywords are checked.
execute_enter_resets_first ==
  /\ pc = "attempting"
  /\ ret' = None /\ out' = None /\ err' = None
  /\ IF kwargs.unexpected
     THEN Leave([kind |-> "TypeError", val |-> NoDetail])
     ELSE /\ lines' = NoLines
          /\ pc' = "build_pipe"
          /\ UNCHANGED <<outcome, processors, ready, interrupted, buf,
                         local_pipe>>
  /\ UNCHANGED <<pipe, cfgvars, othervars, quotevars, entry, kwargs, attempt,
                 exc, child, sigvars, ghostvars>>

\* execute up to "Reset status": an unexpected keyword raises TypeError, which
\* get_output does not catch; otherwise ret, out and err are reset, and
\* _get_output_once starts its lists of lines afresh.
execute_enter ==
  /\ pc = "attempting"
  /\ IF kwargs.unexpected
     THEN /\ Leave([kind |-> "TypeError", val |-> NoDetail])
          /\ UNCHANGED <<ret, out, err>>
     ELSE /\ ret' = None /\ out' = None /\ err' = None
          /\ lines' = NoLines
          /\ pc' = "build_pipe"
          /\ UNCHANGED <<outcome, processors, ready, interrupted, buf,
                         local_pipe>>
  /\ UNCHANGED <<pipe, cfgvars, othervars, quotevars, entry, kwargs, attempt,
                 exc, child, sigvars, ghostvars>>

\* A process id no handle of the Command refers to.
FreshPid == CHOOSE p \in 1..2 : pipe # Some(p)

\* _build_pipe: subprocess.Popen starts the child with its three pipes open.
build_pipe ==
  /\ pc = "build_pipe"
  /\ child' = [NoChild EXCEPT !.pid = FreshPid, !.state = "running",
                              !.wopen = [s \in StreamSet |-> TRUE],
                              !.ropen = [s \in StreamSet |-> TRUE],
                              !.stdin_open = TRUE]
  /\ local_pipe' = Some(FreshPid)
  /\ spawned' = spawned + 1
  /\ pc' = "set_pipe"
  /\ UNCHANGED <<cmdvars, cfgvars, othervars, quotevars, entry, kwargs,
                 attempt, exc, outcome, lines, processors, ready, interrupted,
                 buf, sigvars, slept, called, seen>>

\* self.pipe = pipe
set_pipe ==
  /\ pc = "set_pipe"
  /\ pipe' = local_pipe
  /\ pc' = "feed"
  /\ UNCHANGED <<ret, out, err, cfgvars, othervars, quotevars, entry, kwargs,
                 attempt, exc, outcome, lines, processors, ready, interrupted,
                 buf, local_pipe, child, sigvars, ghostvars>>

\* stdin = kwargs.pop('stdin', None), with nothing to write when it is None
\* or empty.
Stdin == IF kwargs.stdin = None THEN <<>> ELSE The(kwargs.stdin)

\* pipe.stdin.write(stdin) blocks until the input pipe, which holds cap
\* bytes, has taken all of stdin: the next byte goes in when there is room.
write_stdin(cap) ==
  /\ pc = "feed"
  /\ child.state = "running"
  /\ Len(child.stdin) < Len(Stdin)
  /\ Len(child.stdin) - child.stdin_read < cap
  /\ child' = [child EXCEPT !.stdin = Append(@, Stdin[Len(@) + 1])]
  /\ UNCHANGED <<cmdvars, cfgvars, framevars, sigvars, ghostvars, othervars,
                 quotevars>>

\* The child has exited with input still to be written: the write finds no
\* reader and raises BrokenPipeError, which leaves execute and get_output.
write_stdin_broken ==
  /\ pc = "feed"
  /\ child.state = "exited"
  /\ Len(child.stdin) < Len(Stdin)
  /\ Leave([kind |-> "BrokenPipeError", val |-> NoDetail])
  /\ UNCHANGED <<cmdvars, cfgvars, othervars, quotevars, entry, kwargs,
                 attempt, exc, child, sigvars, ghostvars>>

\* feed with the input side closed only after something has been written.
feed_closes_after_write ==
  /\ pc = "feed"
  /\ Len(child.stdin) = Len(Stdin)
  /\ child' = [child EXCEPT !.stdin_open = (kwargs.stdin = None)]
  /\ processors' = Streams
  /\ buf' = NoLines
  /\ pc' = "select"
  /\ UNCHANGED <<cmdvars, cfgvars, othervars, quotevars, entry, kwargs,
                 attempt, exc, outcome, lines, ready, interrupted, local_pipe,
                 sigvars, ghostvars>>

\* With all the input written the input side is closed and the two
\* processors are made.
feed ==
  /\ pc = "feed"
  /\ Len(child.stdin) = Len(Stdin)
  /\ child' = [child EXCEPT !.stdin_open = FALSE]
  /\ processors' = Streams
  /\ buf' = NoLines
  /\ pc' = "select"
  /\ UNCHANGED <<cmdvars, cfgvars, othervars, quotevars, entry, kwargs,
                 attempt, exc, outcome, lines, ready, interrupted, local_pipe,
                 sigvars, ghostvars>>

\* A stream select reports readable: it holds unread bytes or is at its end.
Readable(s) == child.unread[s] > 0 \/ ~child.wopen[s]
\* ReadyOf when only the first processor is waited for.
ReadyOfFirst(procs) == SelectSeq(SubSeq(procs, 1, 1), Readable)
\* select.select(processors, [], [])[0]
ReadyOf(procs) == SelectSeq(procs, Readable)

\* pipe_processor_loop: the loop test and select; with no processor left the
\* loop ends, otherwise select blocks until a processor is readable.
select ==
  /\ pc = "select"
  /\ IF processors = <<>>
     THEN pc' = "wait" /\ UNCHANGED ready
     ELSE /\ ReadyOf(processors) # <<>>
          /\ ready' = ReadyOf(processors)
          /\ pc' = "process"
  /\ interrupted' = FALSE
  /\ UNCHANGED <<cmdvars, cfgvars, othervars, quotevars, entry, kwargs,
                 attempt, exc, outcome, lines, processors, buf, local_pipe,
                 child, sigvars, ghostvars>>

\* pipe_processor_loop: select is interrupted by a signal (EINTR) and the loop
\* goes round again with the same processors.
select_interrupted ==
  /\ pc = "select"
  /\ processors # <<>>
  /\ interrupted' = TRUE
  /\ UNCHANGED <<cmdvars, cfgvars, entry, kwargs, attempt, exc, outcome, lines,
                 processors, ready, buf, local_pipe, pc, child, sigvars,
                 ghostvars, othervars, quotevars>>

\* select_failed with the error taken for a failure of the exit-code policy.
select_failed_as_policy_failure ==
  /\ pc = "select"
  /\ processors # <<>>
  /\ exc' = Some(NoDetail)
  /\ pc' = "except"
  /\ child' = [child EXCEPT !.state = "abandoned"]
  /\ UNCHANGED <<cmdvars, cfgvars, othervars, quotevars, entry, kwargs,
                 attempt, outcome, lines, processors, ready, interrupted, buf,
                 local_pipe, sigvars, ghostvars>>

\* pipe_processor_loop: select fails otherwise; the error leaves execute and
\* get_output, which catches CommandFailedException only. Nothing waits for
\* the child or reads its pipes any more, and the model follows it no further.
select_failed ==
  /\ pc = "select"
  /\ processors # <<>>
  /\ Leave([kind |-> "select.error", val |-> NoDetail])
  /\ child' = [child EXCEPT !.state = "abandoned"]
  /\ UNCHANGED <<cmdvars, cfgvars, othervars, quotevars, entry, kwargs,
                 attempt, exc, sigvars, ghostvars>>

Min(a, b) == IF a < b THEN a ELSE b
\* os.read(fd, 4096) on stream s: the first unread bytes, ReadMax at most.
Read(s) ==
  LET w == child.written[s]
      first == Len(w) - child.unread[s] + 1
  IN SubSeq(w, first, first + Min(child.unread[s], ReadMax) - 1)

Remove(procs, s) == SelectSeq(procs, LAMBDA x : x # s)

\* process going on with the same stream for as long as it has more to read.
process_until_empty ==
  /\ pc = "process"
  /\ LET s == Head(ready)
         data == Read(s)
         r == StreamProcess(buf[s], data)
         more == child.unread[s] - Len(data) > 0
     IN /\ child' = [child EXCEPT !.unread[s] = @ - Len(data),
                                  !.ropen[s] = ~r.eof]
        /\ buf' = [buf EXCEPT ![s] = r.buf]
        /\ lines' = [lines EXCEPT ![s] = @ \o r.handled]
        /\ processors' = IF r.eof THEN Remove(processors, s) ELSE processors
        /\ ready' = IF more THEN ready ELSE Tail(ready)
        /\ pc' = IF ~more /\ Tail(ready) = <<>> THEN "select" ELSE "process"
  /\ UNCHANGED interrupted
  /\ UNCHANGED <<cmdvars, cfgvars, othervars, quotevars, entry, kwargs,
                 attempt, exc, outcome, local_pipe, sigvars, ghostvars>>

\* pipe_processor_loop: stream.process() for the next ready stream, which is
\* removed from the processors when it reports end of file.
process ==
  /\ pc = "process"
  /\ LET s == Head(ready)
         data == Read(s)
         r == StreamProcess(buf[s], data)
     IN /\ child' = [child EXCEPT !.unread[s] = @ - Len(data),
                                  !.ropen[s] = ~r.eof]
        /\ buf' = [buf EXCEPT ![s] = r.buf]
        /\ lines' = [lines EXCEPT ![s] = @ \o r.handled]
        /\ processors' = IF r.eof THEN Remove(processors, s) ELSE processors
  /\ ready' = Tail(ready)
  /\ pc' = IF Tail(ready) = <<>> THEN "select" ELSE "process"
  /\ UNCHANGED interrupted
  /\ UNCHANGED <<cmdvars, cfgvars, othervars, quotevars, entry, kwargs,
                 attempt, exc, outcome, local_pipe, sigvars, ghostvars>>

\* pipe.wait() blocks until the child has exited and reaps it;
\* self.ret = pipe.returncode
wait ==
  /\ pc = "wait"
  /\ child.state = "exited"
  /\ child' = [child EXCEPT !.state = "reaped"]
  /\ ret' = Some(child.code)
  /\ pc' = "clear_pipe"
  /\ UNCHANGED <<pipe, out, err, cfgvars, othervars, quotevars, entry, kwargs,
                 attempt, exc, outcome, lines, processors, ready, interrupted,
                 buf, local_pipe, sigvars, ghostvars>>

\* The check execute itself makes: _get_output_once passes check=False.
ExecuteChecks == entry = "execute" /\ EffCheck

\* execute_finish with a refused exit code handed to the retries of
\* get_output also when execute was called directly.
execute_finish_retried ==
  /\ pc = "clear_pipe"
  /\ pipe' = None
  /\ IF entry = "execute" /\ ~(ExecuteChecks /\ Refused(ret, EffAllowed))
     THEN /\ Leave([kind |-> "return", val |-> Detail(ret, None, None)])
          /\ UNCHANGED exc
     ELSE IF entry = "execute"
     THEN /\ exc' = Some(Detail(ret, out, err))
          /\ pc' = "except"
          /\ UNCHANGED <<outcome, lines, processors, ready, interrupted, buf,
                         local_pipe>>
     ELSE /\ pc' = "join"
          /\ UNCHANGED <<exc, outcome, lines, processors, ready, interrupted,
                         buf, local_pipe>>
  /\ UNCHANGED <<ret, out, err, cfgvars, othervars, quotevars, entry, kwargs,
                 attempt, child, sigvars, ghostvars>>

\* execute from "Remove the closed pipe": the handle is cleared, then the exit
\* code is checked; a direct call of execute ends here.
execute_finish ==
  /\ pc = "clear_pipe"
  /\ pipe' = None
  /\ IF entry = "execute"
     THEN Leave(IF ExecuteChecks /\ Refused(ret, EffAllowed)
                THEN [kind |-> "CommandFailedException",
                      val |-> Detail(ret, out, err)]
                ELSE [kind |-> "return", val |-> Detail(ret, None, None)])
     ELSE /\ pc' = "join"
          /\ UNCHANGED <<outcome, lines, processors, ready, interrupted, buf,
                         local_pipe>>
  /\ UNCHANGED <<ret, out, err, cfgvars, othervars, quotevars, entry, kwargs,
                 attempt, exc, child, sigvars, ghostvars>>

\* What get_output and __call__ return.
Returned(e, r, o, x) == IF e = "get_output" THEN Detail(None, o, x)
                        ELSE Detail(r, None, None)

\* _get_output_once after execute: out and err are joined from the lines the
\* handlers collected, then the exit code is checked.
get_output_once_finish ==
  /\ pc = "join"
  /\ out' = Some(Join(lines["stdout"]))
  /\ err' = Some(Join(lines["stderr"]))
  /\ IF EffCheck /\ Refused(ret, EffAllowed)
     THEN /\ exc' = Some(Detail(ret, out', err'))
          /\ pc' = "except"
          /\ UNCHANGED <<outcome, lines, processors, ready, interrupted, buf,
                         local_pipe>>
     ELSE /\ Leave([kind |-> "return",
                    val |-> Returned(entry, ret, out', err')])
          /\ UNCHANGED exc
  /\ UNCHANGED <<pipe, ret, cfgvars, othervars, quotevars, entry, kwargs,
                 attempt, child, sigvars, ghostvars>>

\* Retries with the limit off by one.
RetriesOnceMore(a, limit) == a <= limit
\* get_output: whether a failed attempt number a is retried.
Retries(a, limit) == a < limit
\* Raised without the test of attempt == 0.
RaisedAlwaysExhausted(a) == "CommandMaxRetryExceeded"
\* get_output: the exception raised when the attempt is not retried.
Raised(a) == IF a = 0 THEN "CommandFailedException"
             ELSE "CommandMaxRetryExceeded"

\* RetryHandlerCall with the number of the attempt to come.
RetryHandlerCallNext == [attempt |-> attempt + 1, kwargs |-> kwargs,
                         exc |-> The(exc)]
\* self.retry_handler(self, args, kwargs, attempt, exc): what the handler is
\* given, the named arguments of the call, the attempt number, the failure.
RetryHandlerCall == [attempt |-> attempt, kwargs |-> kwargs, exc |-> The(exc)]

\* get_output's except clause: with retries left the retry_handler, when there
\* is one, is called with the attempt number; otherwise the failure is raised.
get_output_except ==
  /\ pc = "except"
  /\ IF Retries(attempt, retry_times)
     THEN /\ called' = IF retry_handler THEN Append(called, attempt)
                       ELSE called
          /\ seen' = IF retry_handler THEN Some(RetryHandlerCall) ELSE None
          /\ pc' = "sleep"
          /\ UNCHANGED <<outcome, exc, lines, processors, ready, interrupted,
                         buf, local_pipe>>
     ELSE /\ Leave([kind |-> Raised(attempt), val |-> The(exc)])
          /\ exc' = None
          /\ UNCHANGED <<called, seen>>
  /\ UNCHANGED <<cmdvars, cfgvars, othervars, quotevars, entry, kwargs,
                 attempt, child, sigvars, spawned, slept>>

\* time.sleep(self.retry_sleep); attempt += 1; and round the loop again.
sleep ==
  /\ pc = "sleep"
  /\ slept' = slept + 1
  /\ seen' = None
  /\ attempt' = attempt + 1
  /\ exc' = None
  /\ pc' = "attempting"
  /\ UNCHANGED <<cmdvars, cfgvars, othervars, quotevars, entry, kwargs,
                 outcome, lines, processors, ready, interrupted, buf,
                 local_pipe, child, sigvars, spawned, called>>

\* ------------------------------------------ the retry and policy engine
Entries == {"execute", "get_output", "__call__"}
\* The named overrides of a call: check, allowed_retval, an unexpected name.
PolicyKwargs ==
  {[NoKwargs EXCEPT !.check = c, !.allowed_retval = a, !.unexpected = u] :
     c \in {None, Some(TRUE), Some(FALSE)},
     a \in {None, Some({0, 2})},
     u \in BOOLEAN}
NoSignalTable == [sig \in Signals |-> "SIG_DFL"]

Init == InitWith(BOOLEAN, 0..MaxRetry, BOOLEAN, {{0}}, {NoSignalTable})

Next ==
  \/ \E e \in Entries, kw \in PolicyKwargs : Call(e, kw)
  \/ execute_enter
  \/ build_pipe
  \/ set_pipe
  \/ feed
  \/ select
  \/ process
  \/ wait
  \/ execute_finish
  \/ get_output_once_finish
  \/ get_output_except
  \/ sleep
  \/ \E s \in StreamSet, b \in AsciiBytes : ChildWrite(s, b, MaxData)
  \/ \E c \in ExitCodes : ChildExit(c)

Spec == Init /\ [][Next]_vars

\* ------------------------------------------------- the draining of streams
\* One Command without checking or retries, called through get_output, whose
\* children write any bytes in any order and close either stream first.
InitIO == InitWith({FALSE}, {0}, {FALSE}, {{0}}, {NoSignalTable})

NextIO ==
  \/ Call("get_output", NoKwargs)
  \/ execute_enter
  \/ build_pipe
  \/ set_pipe
  \/ feed
  \/ select
  \/ select_interrupted
  \/ select_failed
  \/ process
  \/ wait
  \/ execute_finish
  \/ get_output_once_finish
  \/ \E s \in StreamSet, b \in Bytes : ChildWrite(s, b, MaxBytes)
  \/ \E s \in StreamSet : ChildClose(s)
  \/ \E c \in {0, 1} : ChildExit(c)

SpecIO == InitIO /\ [][NextIO]_vars

\* The same with children that write the one byte "a", any number of times on
\* either stream: what the draining loop does depends on how much there is to
\* read and where, not on what the bytes are.
NextDrain ==
  \/ Call("get_output", NoKwargs)
  \/ execute_enter
  \/ build_pipe
  \/ set_pipe
  \/ feed
  \/ select
  \/ select_interrupted
  \/ select_failed
  \/ process
  \/ wait
  \/ execute_finish
  \/ get_output_once_finish
  \/ \E s \in StreamSet : ChildWrite(s, "a", MaxDrain)
  \/ \E s \in StreamSet : ChildClose(s)
  \/ \E c \in {0, 1} : ChildExit(c)

\* The controller is one running thread: a select that can return does, and
\* so does the process() call that follows it. Nothing is assumed of the child.
FairSpecDrain ==
  InitIO /\ [][NextDrain]_vars /\ WF_vars(select) /\ WF_vars(process)

\* ------------------------------------------------- feeding the child
\* A child that works through its input: at times it sets out to write n
\* bytes on stream s (limit bytes at most in all) and reads no input before
\* it has written them.
ChildCommit(s, n, limit) ==
  /\ child.state = "running"
  /\ \A o \in StreamSet : child.owes[o] = 0
  /\ Len(child.written["stdout"]) + Len(child.written["stderr"]) + n <= limit
  /\ child' = [child EXCEPT !.owes[s] = n]
  /\ UNCHANGED <<cmdvars, cfgvars, framevars, sigvars, ghostvars, othervars,
                 quotevars>>

\* The child writes one of those bytes, when the pipe of the stream, which
\* holds cap unread bytes, has room for it.
ChildOutput(s, cap) ==
  /\ child.state = "running"
  /\ child.owes[s] > 0
  /\ child.unread[s] < cap
  /\ child' = [child EXCEPT !.written[s] = Append(@, "a"),
                            !.unread[s] = @ + 1,
                            !.owes[s] = @ - 1]
  /\ UNCHANGED <<cmdvars, cfgvars, framevars, sigvars, ghostvars, othervars,
                 quotevars>>

\* The child reads a byte of its input.
ChildInput ==
  /\ child.state = "running"
  /\ \A o \in StreamSet : child.owes[o] = 0
  /\ child.stdin_read < Len(child.stdin)
  /\ child' = [child EXCEPT !.stdin_read = @ + 1]
  /\ UNCHANGED <<cmdvars, cfgvars, framevars, sigvars, ghostvars, othervars,
                 quotevars>>

\* The child has read its input to the end, which the Command has closed, and
\* exits 0.
ChildFinish ==
  /\ child.state = "running"
  /\ \A o \in StreamSet : child.owes[o] = 0
  /\ ~child.stdin_open
  /\ child.stdin_read = Len(child.stdin)
  /\ child' = [child EXCEPT !.state = "exited", !.code = 0,
                            !.wopen = [s \in StreamSet |-> FALSE]]
  /\ UNCHANGED <<cmdvars, cfgvars, framevars, sigvars, ghostvars, othervars,
                 quotevars>>

\* One Command without checking or retries, called through get_output with
\* one to MaxInput bytes of stdin, on pipes that hold PipeCap bytes.
InitFeed == InitWith({FALSE}, {0}, {FALSE}, {{0}}, {NoSignalTable})
FeedKwargs == {[NoKwargs EXCEPT !.stdin = Some([i \in 1..n |-> "a"])] :
                 n \in 1..MaxInput}

NextFeed ==
  \/ \E kw \in FeedKwargs : Call("get_output", kw)
  \/ execute_enter
  \/ build_pipe
  \/ set_pipe
  \/ write_stdin(PipeCap)
  \/ feed
  \/ select
  \/ process
  \/ wait
  \/ execute_finish
  \/ get_output_once_finish
  \/ \E s \in StreamSet, n \in 1..MaxOwed : ChildCommit(s, n, MaxOwed)
  \/ \E s \in StreamSet : ChildOutput(s, PipeCap)
  \/ ChildInput
  \/ ChildFinish

SpecFeed == InitFeed /\ [][NextFeed]_vars

\* ------------------------------------------- failures of the readiness wait
\* One Command with checking, MaxRetry retries and a retry_handler, called
\* through get_output, whose select may be interrupted or fail at any time.
InitWait == InitWith({TRUE}, {MaxRetry}, {TRUE}, {{0}}, {NoSignalTable})
\* The calls are made without stdin, with an empty one or with one byte.
StdinKwargs == {[NoKwargs EXCEPT !.stdin = i] :
                  i \in {None, Some(<<>>), Some(<<"a">>)}}

NextWait ==
  \/ \E kw \in StdinKwargs : Call("get_output", kw)
  \/ execute_enter
  \/ build_pipe
  \/ set_pipe
  \/ write_stdin(PipeCap)
  \/ write_stdin_broken
  \/ feed
  \/ select
  \/ select_interrupted
  \/ select_failed
  \/ process
  \/ wait
  \/ execute_finish
  \/ get_output_once_finish
  \/ get_output_except
  \/ sleep
  \/ \E s \in StreamSet : ChildWrite(s, "a", MaxData)
  \/ \E c \in {0, 1} : ChildExit(c)

SpecWait == InitWait /\ [][NextWait]_vars

\* ------------------------------------------------------ signal forwarding
\* enable_signal_forwarding(sig), called once, between invocations: the
\* handler installed for sig is remembered and _handler installed instead.
enable_signal_forwarding(sig) ==
  /\ pc = "idle"
  /\ signal_id = None
  /\ old_handler' = Some(handlers[sig])
  /\ signal_id' = Some(sig)
  /\ handlers' = [handlers EXCEPT ![sig] = "_handler"]
  /\ UNCHANGED <<cmdvars, cfgvars, othervars, quotevars, framevars, child,
                 exit_status, nsignals, last_delivery, chained, steps,
                 ghostvars>>

\* Forwards without the test of self.pipe.
ForwardsAlways == TRUE
\* _handler: "if self.pipe": whether self.pipe.send_signal is called.
Forwards == pipe # None
\* _handler: the old handler is called.
Chains == old_handler = Some("callable")
\* Exits without the test of signal_id == signal.SIGTERM.
ExitsOnAnySignal == old_handler = Some("SIG_DFL")
\* _handler: sys.exit(128 + signal_id)
Exits == old_handler = Some("SIG_DFL") /\ signal_id = Some(SIGTERM)

\* The signal is delivered and _handler runs: it sends the signal to the
\* child of self.pipe, when there is one (send_signal on None would raise
\* AttributeError), then calls the old handler or, for a SIGTERM that had the
\* default disposition, exits, which ends the call in progress. A running
\* child that gets the signal may die of it.
deliver ==
  /\ signal_id # None
  /\ pc # "exited"
  /\ nsignals < MaxSignals
  /\ nsignals' = nsignals + 1
  /\ last_delivery' = Some([at |-> pc, to |-> IF Forwards THEN pipe ELSE None])
  /\ child' = IF Forwards /\ pipe = Some(child.pid) /\ child.state = "running"
              THEN [child EXCEPT !.signalled = TRUE]
              ELSE child
  /\ child2' = IF Forwards /\ pipe = Some(child2.pid)
                    /\ child2.state = "running"
               THEN [child2 EXCEPT !.signalled = TRUE]
               ELSE child2
  /\ IF Forwards /\ pipe = None
     THEN /\ exit_status' = Some(1)
          /\ pc' = "exited"
          /\ outcome' = [kind |-> "AttributeError", val |-> NoDetail]
          /\ steps' = <<"send_signal">>
          /\ UNCHANGED chained
     ELSE /\ chained' = IF Chains THEN chained + 1 ELSE chained
          /\ steps' = (IF Forwards THEN <<"send_signal">> ELSE <<>>)
                        \o (IF Chains THEN <<"old_handler">>
                            ELSE IF Exits THEN <<"sys.exit">> ELSE <<>>)
          /\ IF ~Chains /\ Exits
             THEN /\ exit_status' = Some(128 + The(signal_id))
                  /\ pc' = "exited"
                  /\ outcome' = [kind |-> "SystemExit", val |-> NoDetail]
             ELSE UNCHANGED <<exit_status, pc, outcome>>
  /\ UNCHANGED <<cmdvars, cfgvars, pc2, local_pipe2, quotevars, entry, kwargs,
                 attempt, exc, lines, processors, ready, interrupted, buf,
                 local_pipe, handlers, signal_id, old_handler, ghostvars>>

\* A running child that was sent the signal dies of it: its return code is
\* the negated signal number.
ChildDies ==
  /\ child.state = "running"
  /\ child.signalled
  /\ child' = [child EXCEPT !.state = "exited", !.code = 0 - The(signal_id),
                            !.wopen = [s \in StreamSet |-> FALSE]]
  /\ UNCHANGED <<cmdvars, cfgvars, othervars, quotevars, framevars, sigvars,
                 ghostvars>>

\* One Command with checking, one retry and a retry_handler, called through
\* get_output, in a
\* controller whose signals have any disposition to begin with; its children
\* write nothing.
InitSig == InitWith({TRUE}, {1}, {TRUE}, {{0}}, [Signals -> Dispositions])

NextSig ==
  \/ \E sig \in Signals : enable_signal_forwarding(sig)
  \/ deliver
  \/ Call("get_output", NoKwargs)
  \/ execute_enter
  \/ build_pipe
  \/ set_pipe
  \/ feed
  \/ select
  \/ process
  \/ wait
  \/ execute_finish
  \/ get_output_once_finish
  \/ get_output_except
  \/ sleep
  \/ \E c \in {0, 1} : ChildExit(c)
  \/ ChildDies

SpecSig == InitSig /\ [][NextSig]_vars

\* ------------------------------------------- two calls on one Command
\* A second thread calls execute(check=False) on the same Command while the
\* first call may be anywhere. Its child writes nothing, so its draining loop
\* ends when the child has exited. The steps are those of execute, on the
\* locals of the second call and the one self.pipe of the Command.
FreshPid2 == CHOOSE p \in 3..4 : pipe # Some(p)

\* execute, second call: "Reset status".
other_execute_enter ==
  /\ pc2 = "idle" /\ pc # "exited"
  /\ ret' = None /\ out' = None /\ err' = None
  /\ pc2' = "build_pipe"
  /\ UNCHANGED <<pipe, cfgvars, framevars, child, sigvars, ghostvars,
                 local_pipe2, child2, quotevars>>

\* execute, second call: pipe = self._build_pipe(args, close_fds)
other_build_pipe ==
  /\ pc2 = "build_pipe" /\ pc # "exited"
  /\ child2' = [NoChild EXCEPT !.pid = FreshPid2, !.state = "running",
                               !.wopen = [s \in StreamSet |-> TRUE],
                               !.ropen = [s \in StreamSet |-> TRUE],
                               !.stdin_open = TRUE]
  /\ local_pipe2' = Some(FreshPid2)
  /\ pc2' = "set_pipe"
  /\ UNCHANGED <<cmdvars, cfgvars, framevars, child, sigvars, ghostvars,
                 quotevars>>

\* execute, second call: self.pipe = pipe
other_set_pipe ==
  /\ pc2 = "set_pipe" /\ pc # "exited"
  /\ pipe' = local_pipe2
  /\ pc2' = "loop"
  /\ UNCHANGED <<ret, out, err, cfgvars, framevars, child, sigvars, ghostvars,
                 local_pipe2, child2, quotevars>>

\* execute, second call: the input side is closed and pipe_processor_loop
\* runs until both streams of the child have ended.
other_loop ==
  /\ pc2 = "loop" /\ pc # "exited"
  /\ child2.state = "exited"
  /\ child2' = [child2 EXCEPT !.stdin_open = FALSE]
  /\ pc2' = "wait"
  /\ UNCHANGED <<cmdvars, cfgvars, framevars, child, sigvars, ghostvars,
                 local_pipe2, quotevars>>

\* execute, second call: pipe.wait(); self.ret = pipe.returncode
other_wait ==
  /\ pc2 = "wait" /\ pc # "exited"
  /\ child2' = [child2 EXCEPT !.state = "reaped"]
  /\ ret' = Some(child2.code)
  /\ pc2' = "clear_pipe"
  /\ UNCHANGED <<pipe, out, err, cfgvars, framevars, child, sigvars,
                 ghostvars, local_pipe2, quotevars>>

\* execute, second call: self.pipe = None; return self.ret
other_execute_finish ==
  /\ pc2 = "clear_pipe" /\ pc # "exited"
  /\ pipe' = None
  /\ local_pipe2' = None
  /\ pc2' = "idle"
  /\ UNCHANGED <<ret, out, err, cfgvars, framevars, child, sigvars, ghostvars,
                 child2, quotevars>>

\* The child of the second call exits with code c.
Child2Exit(c) ==
  /\ child2.state = "running"
  /\ child2' = [child2 EXCEPT !.state = "exited", !.code = c,
                              !.wopen = [s \in StreamSet |-> FALSE]]
  /\ UNCHANGED <<cmdvars, cfgvars, framevars, child, sigvars, ghostvars, pc2,
                 local_pipe2, quotevars>>

\* One Command without checking, on which two threads call execute, in a
\* controller that forwards a signal whose old disposition is the default.
InitConc == InitWith({FALSE}, {0}, {FALSE}, {{0}}, {NoSignalTable})

NextConc ==
  \/ \E sig \in Signals : enable_signal_forwarding(sig)
  \/ deliver
  \/ Call("execute", NoKwargs)
  \/ execute_enter
  \/ build_pipe
  \/ set_pipe
  \/ feed
  \/ select
  \/ process
  \/ wait
  \/ execute_finish
  \/ ChildExit(0)
  \/ other_execute_enter
  \/ other_build_pipe
  \/ other_set_pipe
  \/ other_loop
  \/ other_wait
  \/ other_execute_finish
  \/ Child2Exit(0)

SpecConc == InitConc /\ [][NextConc]_vars

\* ------------------------------------------------------------- quoting
\* The characters of an argument: a letter, the single quote, the space, the
\* backslash, the dollar sign and the newline.
SQ == "'"
BS == "\\"
QuoteChars == {"a", SQ, " ", BS, "$", NL}
Args == UNION {[1..n -> QuoteChars] : n \in 0..MaxArg}

RECURSIVE ReplaceWithBackslash(_)
\* Replace with the quote escaped by a backslash and the string left open.
ReplaceWithBackslash(a) ==
  IF a = <<>> THEN <<>>
  ELSE (IF Head(a) = SQ THEN <<BS, SQ>> ELSE <<Head(a)>>)
         \o ReplaceWithBackslash(Tail(a))

RECURSIVE Replace(_)
\* arg.replace("'", "'\\''"): each single quote becomes quote, backslash,
\* quote, quote.
Replace(a) ==
  IF a = <<>> THEN <<>>
  ELSE (IF Head(a) = SQ THEN <<SQ, BS, SQ, SQ>> ELSE <<Head(a)>>)
         \o Replace(Tail(a))

\* "'{}'".format(...)
ShellQuote(a) == <<SQ>> \o Replace(a) \o <<SQ>>

\* shell_quote(a) is called and returns.
shell_quote(a) ==
  /\ arg' = a
  /\ quoted' = Some(ShellQuote(a))
  /\ UNCHANGED <<cmdvars, cfgvars, framevars, child, sigvars, ghostvars,
                 othervars>>

InitQuote == InitWith({FALSE}, {0}, {FALSE}, {{0}}, {NoSignalTable})
NextQuote == \E a \in Args : shell_quote(a)
SpecQuote == InitQuote /\ [][NextQuote]_vars

\* ---------------------------------------------------------- properties
\* Exit-code checking is enabled for the call in progress or just ended.
CheckEnabled == kwargs.check = Some(TRUE) \/ (kwargs.check = None /\ check)
\* The accepted exit codes of that call.
Accepted == IF kwargs.allowed_retval = None THEN allowed_retval
            ELSE The(kwargs.allowed_retval)
\* A call of get_output or __call__ has ended, past the keyword check.
RetryCallEnded ==
  /\ pc = "idle"
  /\ entry \in {"get_output", "__call__"}
  /\ outcome.kind \notin {"pending", "TypeError"}
\* The last child of the call has been reaped with a refused exit code.
LastChildFailed == child.state = "reaped" /\ child.code \notin Accepted
\* The attempt numbers 0, 1, ..., n-1.
Indices(n) == [i \in 1..n |-> i - 1]

\* C1: a call of get_output with retry_times = R >= 1 and checking enabled
\* whose children all fail (the last one did) ends raising
\* CommandMaxRetryExceeded after exactly R+1 children, R sleeps and, with a
\* retry_handler, R calls of it; all along there is one sleep between two
\* consecutive attempts.
C1_ExhaustedAfterRPlusOne ==
  /\ (pc # "idle" /\ entry \in {"get_output", "__call__"})
       => /\ slept = attempt
          /\ spawned \in {attempt, attempt + 1}
  /\ (RetryCallEnded /\ retry_times >= 1 /\ CheckEnabled /\ LastChildFailed)
       => /\ outcome.kind = "CommandMaxRetryExceeded"
          /\ spawned = retry_times + 1
          /\ slept = retry_times
          /\ called = IF retry_handler THEN Indices(retry_times) ELSE <<>>
C1_Witness ==
  /\ RetryCallEnded /\ retry_times = MaxRetry /\ CheckEnabled
  /\ LastChildFailed /\ child.code = 1 /\ retry_handler
  /\ outcome.kind = "CommandMaxRetryExceeded" /\ spawned = MaxRetry + 1

\* C2: with retry_times = 0 and checking enabled a failing child makes
\* get_output raise the CommandFailedException of check_return_value itself,
\* after one child, no sleep and no call of the retry_handler.
C2_NoRetryRaisesOriginal ==
  (RetryCallEnded /\ retry_times = 0 /\ CheckEnabled /\ LastChildFailed)
    => /\ outcome.kind = "CommandFailedException"
       /\ outcome.val = Detail(ret, out, err)
       /\ spawned = 1 /\ slept = 0 /\ called = <<>>
C2_Witness ==
  /\ RetryCallEnded /\ retry_times = 0 /\ CheckEnabled /\ LastChildFailed
  /\ retry_handler /\ outcome.kind = "CommandFailedException"

\* C3: CommandMaxRetryExceeded is raised only after at least one retry and with
\* no retry left, and it carries the exit code, output and error of the last
\* child, whatever the earlier children wrote.
C3_ExhaustedCarriesLastFailure ==
  outcome.kind = "CommandMaxRetryExceeded"
    => /\ attempt >= 1 /\ attempt = retry_times
       /\ slept >= 1 /\ spawned = attempt + 1
       /\ LastChildFailed
       /\ outcome.val.ret = Some(child.code)
       /\ outcome.val.out = Some(Decode(child.written["stdout"]))
       /\ outcome.val.err = Some(Decode(child.written["stderr"]))
C3_Witness ==
  /\ outcome.kind = "CommandMaxRetryExceeded"
  /\ attempt = MaxRetry
  /\ outcome.val.ret = Some(2)
  /\ outcome.val.err = Some(<<"a">>)

\* C4: with checking disabled for the call, get_output and __call__ return
\* after one child, whatever its exit code and whatever retry_times, and
\* self.ret is the exit code of that child.
C4_UncheckedReturns ==
  (RetryCallEnded /\ ~CheckEnabled)
    => /\ outcome.kind = "return"
       /\ spawned = 1 /\ slept = 0 /\ called = <<>>
       /\ child.state = "reaped"
       /\ ret = Some(child.code)
       /\ entry = "__call__" => outcome.val.ret = Some(child.code)
C4_Witness ==
  /\ RetryCallEnded /\ ~CheckEnabled /\ check /\ retry_times > 0
  /\ child.code = 1 /\ outcome.kind = "return" /\ ret = Some(1)

\* C5: a CommandFailedException raised by execute, get_output or __call__
\* holds the exit code of the child and all it wrote on its output and on its
\* error stream.
C5_FailureHoldsOutput ==
  outcome.kind = "CommandFailedException"
    => /\ outcome.val.ret = Some(child.code)
       /\ outcome.val.out = Some(Decode(child.written["stdout"]))
       /\ outcome.val.err = Some(Decode(child.written["stderr"]))

\* C8: from "Reset status" until the child is reaped ret, out and err are all
\* None; ret is set only once both streams have ended and the child is reaped,
\* and out and err only after ret, both from the lines of that attempt.
Attempting == pc \in {"build_pipe", "set_pipe", "feed", "select", "process",
                      "wait"}
C8_ResultOnlyAfterDrain ==
  /\ Attempting => (ret = None /\ out = None /\ err = None)
  /\ ret # None => /\ processors = <<>>
                   /\ child.state = "reaped"
                   /\ \A s \in StreamSet :
                        child.unread[s] = 0 /\ ~child.wopen[s]
                   /\ ret = Some(child.code)
  /\ (out # None \/ err # None)
       => /\ ret # None /\ out # None /\ err # None
          /\ pc = "except" => /\ out = Some(Join(lines["stdout"]))
                              /\ err = Some(Join(lines["stderr"]))
C8_Witness ==
  /\ pc \in {"select", "process"} /\ attempt >= 1
  /\ buf["stdout"] # <<>>
  /\ "stderr" \in {processors[i] : i \in 1..Len(processors)}
  /\ ret = None

\* The draining loop is running; stream s still has its processor; the bytes
\* of s read so far.
InLoop == pc \in {"select", "process"}
Open(s) == \E i \in 1..Len(processors) : processors[i] = s
Consumed(s) == Len(child.written[s]) - child.unread[s]
Drained(s) == child.unread[s] = 0 /\ ~child.wopen[s]

\* C7: in the draining loop a stream that still has its processor and holds
\* unread bytes or is at its end is eventually read (more of its bytes are
\* consumed, or its end is reported and its processor removed), unless select
\* fails; the loop is left for pipe.wait() only with both streams read to
\* their end, and is left once both processors are gone.
C7_NoStarvation ==
  /\ \A s \in StreamSet : \A k \in 0..MaxDrain :
       (InLoop /\ Open(s) /\ Readable(s) /\ Consumed(s) = k)
         ~> (Consumed(s) > k \/ ~Open(s) \/ outcome.kind = "select.error")
  /\ [](pc = "wait" => (processors = <<>> /\ \A s \in StreamSet : Drained(s)))
  /\ [](InLoop => \A s \in StreamSet : Open(s) \/ Drained(s))
  /\ (InLoop /\ processors = <<>>) ~> (pc = "wait")
C7_Witness ==
  /\ pc = "select" /\ processors = <<"stdout">>
  /\ child.unread["stdout"] > 0 /\ Consumed("stdout") > 0
  /\ child.wopen["stdout"]
  /\ lines["stderr"] = <<<<"a">>>>

\* The bytes are well-formed UTF-8: decoding them whole replaces nothing.
WellFormed(bytes) ==
  \A i \in 1..Len(Decode(bytes)) : Decode(bytes)[i] # Replacement

\* C6: when a child that wrote well-formed text on its two streams, in any
\* order and in any pieces, has exited 0, get_output returns exactly the text
\* written on each stream and self.ret is 0.
C6_ReturnsFullTexts ==
  (/\ pc = "idle" /\ entry = "get_output" /\ outcome.kind = "return"
   /\ child.state = "reaped" /\ child.code = 0
   /\ \A s \in StreamSet : WellFormed(child.written[s]))
    => /\ outcome.val.out = Some(Decode(child.written["stdout"]))
       /\ outcome.val.err = Some(Decode(child.written["stderr"]))
       /\ ret = Some(0)

\* The processor of stream s has reported the end of the stream.
Ended(s) == pc \in {"select", "process", "wait", "clear_pipe", "join"}
            /\ ~Open(s)

\* C9: once the processor of a stream has reported its end, the lines it has
\* handed to the handler are, in order, the lines of the whole stream decoded
\* in one piece and split at the newlines, however the reads cut the stream.
C9_LinesOfWholeStream ==
  \A s \in StreamSet :
    Ended(s) => lines[s] = Split(Decode(child.written[s]))

\* A step that delivers the signal while self.pipe is None.
DeliveredWithoutChild == nsignals' = nsignals + 1 /\ pipe = None

\* C10, as claimed: a SIGTERM delivered while self.pipe is None changes
\* nothing and raises nothing.
C10_DeliveryIsNoOp ==
  [][(DeliveredWithoutChild /\ signal_id = Some(SIGTERM))
       => /\ pc' = pc /\ exit_status' = exit_status /\ outcome' = outcome
          /\ child' = child
          /\ UNCHANGED cmdvars]_vars

\* C10, amended: a signal delivered while self.pipe is None is sent to no
\* child and leaves the Command and the child as they are; the handler then
\* goes on as for any delivery: a callable old handler is called and the call
\* in progress continues, and a SIGTERM whose old disposition was the default
\* ends the controller with status 128 + SIGTERM.
C10_ForwardingIsNoOp ==
  [][DeliveredWithoutChild
       => /\ last_delivery' = Some([at |-> pc, to |-> None])
          /\ child' = child
          /\ UNCHANGED cmdvars
          /\ IF old_handler = Some("SIG_DFL") /\ signal_id = Some(SIGTERM)
             THEN /\ pc' = "exited"
                  /\ exit_status' = Some(128 + SIGTERM)
                  /\ outcome'.kind = "SystemExit"
                  /\ chained' = chained
             ELSE /\ pc' = pc /\ exit_status' = exit_status
                  /\ outcome' = outcome
                  /\ chained' = IF old_handler = Some("callable")
                                THEN chained + 1 ELSE chained]_vars
\* A SIGTERM was delivered during the sleep between two attempts, and the next
\* attempt has started.
C10_Witness ==
  /\ signal_id = Some(SIGTERM)
  /\ last_delivery = Some([at |-> "sleep", to |-> None])
  /\ pc = "build_pipe" /\ attempt = 1

\* A step that delivers the signal, and what _handler then does after it has
\* forwarded the signal.
Delivered == nsignals' = nsignals + 1
AfterForwarding ==
  IF old_handler = Some("callable") THEN <<"old_handler">>
  ELSE IF old_handler = Some("SIG_DFL") /\ signal_id = Some(SIGTERM)
       THEN <<"sys.exit">>
  ELSE <<>>

\* C11: on each delivery _handler first sends the signal to the child of
\* self.pipe, if self.pipe is set at that moment; then it calls the handler
\* that was installed at registration if that is callable; otherwise, if that
\* was the default disposition and the signal is SIGTERM, it ends the
\* controller with status 128 + signal; otherwise it does nothing more.
C11_HandlerOrder ==
  [][Delivered
       => /\ steps' = (IF pipe # None THEN <<"send_signal">> ELSE <<>>)
                         \o AfterForwarding
          /\ The(last_delivery').to = pipe
          /\ (pipe = Some(child.pid) /\ child.state = "running")
               => child'.signalled
          /\ chained' = IF old_handler = Some("callable") THEN chained + 1
                        ELSE chained
          /\ IF AfterForwarding = <<"sys.exit">>
             THEN /\ exit_status' = Some(128 + The(signal_id))
                  /\ pc' = "exited"
             ELSE UNCHANGED <<exit_status, pc>>]_vars
\* A SIGTERM that had the default disposition came while a child was running:
\* it was sent to the child and the controller exited with 143.
C11_Witness ==
  /\ steps = <<"send_signal", "sys.exit">>
  /\ child.signalled /\ child.state = "running"
  /\ exit_status = Some(128 + SIGTERM) /\ pc = "exited"

\* C12: whenever no attempt is in progress self.pipe is None, however the
\* last attempt ended, and when it is not None it refers to the child of the
\* attempt in progress, which has been spawned and, until the step that
\* clears the handle, not been reaped.
C12_HandleClearedAfterAttempt ==
  /\ pc \in {"idle", "attempting", "build_pipe", "join", "except", "sleep"}
       => pipe = None
  /\ pipe # None
       => /\ pipe = Some(child.pid)
          /\ child.state \in {"running", "exited"} \/ pc = "clear_pipe"

\* C13: when two calls on one Command overlap, each call's child is the one
\* self.pipe refers to from the moment the call has set the handle until the
\* call clears it itself (no other call overwrites or clears it), so that a
\* signal forwarded to self.pipe reaches the child of every call.
C13_HandleOwned ==
  /\ pc \in {"feed", "select", "process", "wait", "clear_pipe"}
       => pipe = local_pipe
  /\ pc2 \in {"loop", "wait", "clear_pipe"}
       => pipe = local_pipe2

\* C14: a call of execute, get_output or __call__ with a named argument that
\* execute does not know raises TypeError as its first step: no child has
\* been spawned, nothing is retried, and ret, out, err and pipe are what they
\* were before the call.
C14_UnexpectedKeywordRaises ==
  /\ []((kwargs.unexpected /\ pc # "idle")
          => (pc = "attempting" /\ spawned = 0))
  /\ [](outcome.kind = "TypeError"
          => (kwargs.unexpected /\ pc = "idle" /\ spawned = 0 /\ slept = 0))
  /\ [][(pc = "idle" /\ pc' = "attempting")
         => UNCHANGED <<cmdvars, child>>]_vars
  /\ [][(pc = "attempting" /\ kwargs.unexpected /\ pc' # pc)
         => (outcome'.kind = "TypeError" /\ UNCHANGED <<cmdvars, child>>)]_vars
\* A get_output with an unknown named argument has raised, on a Command with
\* retries that still holds the results of an earlier call.
C14_Witness ==
  /\ outcome.kind = "TypeError" /\ entry = "get_output" /\ retry_times > 0
  /\ ret = Some(1) /\ out # None /\ err = Some(<<"a">>) /\ pipe = None

\* The exceptions of the exit-code policy.
PolicyFailures == {"CommandFailedException", "CommandMaxRetryExceeded"}

\* C15: the check flag and the accepted exit codes given to a call govern
\* every attempt of that call, retries included: an attempt is taken for
\* failed, and a call ends in a policy failure, only if checking is enabled
\* for the call and the exit code is outside the call's accepted set, and a
\* call returns only if not. The Command's own check, allowed_retval,
\* retry_times and retry_handler never change, nor do the named arguments
\* while the call lasts, so a call without overrides is governed by the
\* constructor's values again.
C15_OverrideForEveryAttempt ==
  /\ [](pc = "except" => (CheckEnabled /\ child.code \notin Accepted))
  /\ []((pc = "idle" /\ outcome.kind \in PolicyFailures)
          => (CheckEnabled /\ child.code \notin Accepted))
  /\ []((pc = "idle" /\ outcome.kind = "return")
          => ~(CheckEnabled /\ child.code \notin Accepted))
  /\ [][UNCHANGED cfgvars]_vars
  /\ [][pc # "idle" => kwargs' = kwargs]_vars
\* A call with check=True and allowed_retval={0, 2} on a Command constructed
\* without checking and with allowed_retval={0}: the first child was refused
\* and the second, which exited 2, accepted.
C15_Witness ==
  /\ RetryCallEnded /\ outcome.kind = "return" /\ attempt = 1
  /\ kwargs.check = Some(TRUE) /\ ~check
  /\ kwargs.allowed_retval = Some({0, 2}) /\ allowed_retval = {0}
  /\ child.code = 2

\* The failure detail of the child that has just been reaped.
FailureOfChild == Detail(Some(child.code),
                         Some(Decode(child.written["stdout"])),
                         Some(Decode(child.written["stderr"])))

\* C16: in a call of get_output or __call__ on a Command with a
\* retry_handler, the handler has been called with the attempt numbers
\* 0, 1, ... in that order, once for each retry; each call is made after the
\* attempt of that number has failed and before the sleep, with the named
\* arguments of the call and the failure detail of the child just reaped;
\* and the sleep comes before the next child is spawned.
C16_RetryHandlerCalls ==
  /\ (pc # "idle" /\ entry \in {"get_output", "__call__"} /\ retry_handler)
       => called = Indices(IF pc = "sleep" THEN attempt + 1 ELSE attempt)
  /\ (RetryCallEnded /\ retry_handler) => called = Indices(slept)
  /\ (pc = "sleep" /\ retry_handler)
       => /\ seen = Some([attempt |-> attempt, kwargs |-> kwargs,
                          exc |-> FailureOfChild])
          /\ child.state = "reaped" /\ child.code \notin Accepted
  /\ pc = "sleep" => (spawned = attempt + 1 /\ slept = attempt)
  /\ pc # "sleep" => seen = None
  /\ spawned <= slept + 1
\* The handler is being told of the second failure of a call with overrides,
\* whose child wrote on its error stream and exited 2.
C16_Witness ==
  /\ pc = "sleep" /\ retry_handler /\ attempt = 1 /\ called = <<0, 1>>
  /\ seen # None /\ The(seen).exc = Detail(Some(2), Some(<<>>), Some(<<"a">>))
  /\ kwargs.check = Some(TRUE)

\* C17: when select is interrupted (EINTR) the loop goes back to select with
\* the same processors, nothing read and nothing handled, and what the
\* controller does next is that select again; when select fails otherwise
\* the call ends at once with that error, with no call of the retry_handler,
\* no sleep and no further child, whatever retries are left.
C17_WaitFailures ==
  /\ [](interrupted => (pc = "select" /\ processors # <<>>))
  /\ [][(interrupted' /\ ~interrupted)
         => (pc = "select" /\ pc' = "select"
             /\ UNCHANGED <<processors, child, lines, buf, cmdvars, attempt,
                            ghostvars, outcome>>)]_vars
  /\ [][(interrupted /\ ~interrupted')
         => \/ pc' = "process" /\ ready' = ReadyOf(processors)
            \/ outcome'.kind = "select.error"]_vars
  /\ [][(child'.state = "abandoned" /\ child.state # "abandoned")
         => (pc = "select" /\ pc' = "idle" /\ outcome'.kind = "select.error"
             /\ UNCHANGED <<attempt, ghostvars>>)]_vars
  /\ [](outcome.kind = "select.error"
          => (pc = "idle" /\ child.state = "abandoned"
              /\ spawned = attempt + 1 /\ slept = attempt
              /\ called = Indices(attempt)))
\* select has failed in the second attempt of a call, after one read, with a
\* retry left.
C17_Witness ==
  /\ outcome.kind = "select.error" /\ attempt = 1 /\ retry_times > attempt
  /\ child.written["stdout"] = <<"a">> /\ child.unread["stdout"] = 0

RECURSIVE ShWords(_, _, _, _)
\* The words a POSIX shell makes of text: within single quotes every
\* character stands for itself up to the next single quote; outside them a
\* backslash makes the next character stand for itself, blanks and newlines
\* separate words, and a dollar sign starts an expansion. (inquote: within
\* single quotes; cur: the word so far; inword: a word has begun.)
ShWords(text, inquote, cur, inword) ==
  IF text = <<>> THEN (IF inword THEN <<cur>> ELSE <<>>)
  ELSE LET c == Head(text) rest == Tail(text) IN
       IF inquote
       THEN IF c = SQ THEN ShWords(rest, FALSE, cur, TRUE)
            ELSE ShWords(rest, TRUE, Append(cur, c), TRUE)
       ELSE IF c = SQ THEN ShWords(rest, TRUE, cur, TRUE)
       ELSE IF c = BS
            THEN IF rest = <<>> THEN <<Append(cur, "continuation")>>
                 ELSE ShWords(Tail(rest), FALSE, Append(cur, Head(rest)), TRUE)
       ELSE IF c \in {" ", NL}
            THEN (IF inword THEN <<cur>> ELSE <<>>)
                   \o ShWords(rest, FALSE, <<>>, FALSE)
       ELSE IF c = "$"
            THEN ShWords(rest, FALSE, Append(cur, "expansion"), TRUE)
       ELSE ShWords(rest, FALSE, Append(cur, c), TRUE)

\* C18: what shell_quote returns for an argument is read by a POSIX shell as
\* one word, which is the argument, whatever quotes, blanks, backslashes,
\* dollar signs and newlines the argument holds, the empty argument included.
C18_QuoteRoundTrip ==
  quoted # None => ShWords(The(quoted), FALSE, <<>>, FALSE) = <<arg>>
\* An argument with a quote, a blank and a dollar sign has been quoted.
C18_Witness ==
  /\ arg = <<SQ, " ", "$">>
  /\ quoted = Some(<<SQ, SQ, BS, SQ, SQ, " ", "$", SQ>>)

\* The bytes the call in progress was given for the child's input.
Supplied == IF kwargs.stdin = None THEN <<>> ELSE The(kwargs.stdin)
\* A step in which process() reads a stream, or finds its end.
ReadStep ==
  /\ pc = "process"
  /\ \/ \E s \in StreamSet : child'.unread[s] < child.unread[s]
     \/ Len(processors') < Len(processors)

\* C19: in every attempt the child's input is left open until all of stdin
\* has been written to it, and nothing is read meanwhile; from the first
\* select on, the bytes given as stdin have been written and the input side
\* is closed, also when no stdin was given; no stream is read before that.
C19_InputClosedBeforeDraining ==
  /\ [](pc \in {"set_pipe", "feed"}
          => (/\ child.stdin_open
              /\ pc = "set_pipe" => child.stdin = <<>>
              /\ child.stdin = SubSeq(Supplied, 1, Len(child.stdin))
              /\ \A s \in StreamSet : Consumed(s) = 0))
  /\ [](pc \in {"select", "process", "wait", "clear_pipe", "join"}
          => (~child.stdin_open /\ child.stdin = Supplied))
  /\ [][ReadStep => (~child.stdin_open /\ child.stdin = Supplied)]_vars
\* The child of a call with one byte of stdin has been fed and one byte of its
\* output read.
C19_Witness ==
  /\ pc = "select" /\ kwargs.stdin = Some(<<"a">>)
  /\ child.stdin = <<"a">> /\ ~child.stdin_open
  /\ Consumed("stdout") = 1 /\ child.state = "running"

\* The stream the next process() call is about, a step that makes that call,
\* and the number of newlines among the bytes of a stream.
Current == Head(ready)
ProcessStep == pc = "process" /\ ready' = Tail(ready)
NLCount(bytes) == Cardinality({i \in 1..Len(bytes) : bytes[i] = NL})
\* The bytes of stream s that have been read so far.
ReadSoFar(s) == SubSeq(child.written[s], 1, Consumed(s))

\* C20: a process() call that reads zero bytes closes the descriptor, hands
\* the buffered partial line to the handler, once, empty or not, and its
\* stream is removed from the processors; from then on the stream is not
\* read and its handler not called. A read that yields data hands over one
\* line for each newline read so far and no more, so none if it completes no
\* line. process() is only ever called on a stream that has its processor.
C20_EndOfStreamFlushedOnce ==
  /\ [](pc = "process" => (Open(Current) /\ child.ropen[Current]))
  /\ [][(ProcessStep /\ child.unread[Current] = 0)
         => /\ lines'[Current] = Append(lines[Current], buf[Current])
            /\ processors' = Remove(processors, Current)
            /\ ~child'.ropen[Current]]_vars
  /\ [][(ProcessStep /\ child.unread[Current] > 0)
         => /\ child'.unread[Current] < child.unread[Current]
            /\ Len(lines'[Current])
                 = NLCount(SubSeq(child.written[Current], 1,
                                  Len(child.written[Current])
                                    - child'.unread[Current]))
            /\ processors' = processors
            /\ child'.ropen[Current]]_vars
  /\ [](\A s \in StreamSet :
          (InLoop /\ Open(s)) => Len(lines[s]) = NLCount(ReadSoFar(s)))
  /\ [](\A s \in StreamSet :
          Ended(s) => /\ Len(lines[s]) = NLCount(child.written[s]) + 1
                      /\ ~child.ropen[s] /\ child.unread[s] = 0)
  /\ [][\A s \in StreamSet :
          (Ended(s) /\ pc' \notin {"idle", "except"})
            => (lines'[s] = lines[s]
                /\ child'.unread[s] = child.unread[s]
                /\ ~child'.ropen[s])]_vars
\* The output stream has ended with nothing written and its empty last line
\* has been handed over; the error stream holds a partial line of which
\* nothing has been handed over.
C20_Witness ==
  /\ pc = "select" /\ processors = <<"stderr">>
  /\ lines["stdout"] = <<<<>>>> /\ ~child.ropen["stdout"]
  /\ buf["stderr"] = <<"a">> /\ lines["stderr"] = <<>>
  /\ child.ropen["stderr"]

\* Stream s is read in this step: bytes of it are consumed, or its end found
\* (build_pipe is the step that starts another child, with nothing unread).
IsRead(s) ==
  \/ pc # "build_pipe" /\ child'.unread[s] < child.unread[s]
  \/ pc = "process" /\ Open(s) /\ s \notin {processors'[i] :
                                                i \in 1..Len(processors')}
\* The streams select reports: those with a processor that hold unread bytes
\* or have been closed by the child, in the order of the processors.
Reported ==
  SelectSeq(processors,
            LAMBDA s : child.unread[s] > 0 \/ ~child.wopen[s])

\* C21: every read is made by a process() call on the first of the streams
\* the last select reported and not yet processed; it is one read, of
\* ReadMax bytes at most, and it takes the stream off that list, on which no
\* stream is twice: the stream is read again only after another select,
\* which reports all the streams that still have a processor and are ready.
C21_OneReadPerWait ==
  /\ [](pc = "process"
          => /\ ready # <<>>
             /\ \A i, j \in 1..Len(ready) : ready[i] = ready[j] => i = j
             /\ \A i \in 1..Len(ready) : Open(ready[i]))
  /\ [](pc = "select" => ready = <<>>)
  /\ [][(pc = "select" /\ pc' = "process") => ready' = Reported]_vars
  /\ [][\A s \in StreamSet :
          IsRead(s)
            => /\ pc = "process" /\ s = Current
               /\ ready' = Tail(ready)
               /\ child.unread[s] - child'.unread[s] <= ReadMax
               /\ \A o \in StreamSet \ {s} :
                    child'.unread[o] = child.unread[o]]_vars
\* The output stream has been read once and holds more, and the loop has
\* gone on to the error stream, which the same select reported.
C21_Witness ==
  /\ pc = "process" /\ ready = <<"stderr">>
  /\ Consumed("stdout") = ReadMax /\ child.unread["stdout"] > 0
  /\ Consumed("stderr") = 0

\* C22: a direct call of execute never enters the retry loop of get_output:
\* it spawns one child, its attempt number stays 0, the retry_handler is not
\* called and nothing sleeps; with checking enabled and a refused exit code
\* it raises CommandFailedException as soon as the handle is cleared,
\* whatever retry_times is, and otherwise returns the exit code.
C22_ExecuteNeverRetries ==
  entry = "execute"
    => /\ pc \notin {"join", "except", "sleep"}
       /\ attempt = 0 /\ slept = 0 /\ called = <<>> /\ spawned <= 1
       /\ (pc = "idle" /\ outcome.kind # "TypeError")
            => /\ spawned = 1 /\ child.state = "reaped"
               /\ outcome.kind = IF CheckEnabled /\ child.code \notin Accepted
                                 THEN "CommandFailedException"
                                 ELSE "return"
               /\ outcome.val.ret = Some(child.code)
\* execute has raised on a Command with checking, MaxRetry retries and a
\* retry_handler, whose only child exited 1.
C22_Witness ==
  /\ entry = "execute" /\ pc = "idle"
  /\ outcome.kind = "CommandFailedException"
  /\ retry_times = MaxRetry /\ retry_handler /\ check
  /\ spawned = 1 /\ child.code = 1

\* The steps of an attempt at which its child has been spawned and has not
\* been reaped.
LivePcs == {"set_pipe", "feed", "select", "process", "wait"}

\* C23: with forwarding enabled, whenever the child of the attempt has been
\* spawned and not yet reaped self.pipe refers to it, and a signal delivered
\* at such a moment has been forwarded to it.
C23_HandleCoversLiveChild ==
  signal_id # None
    => /\ (pc \in LivePcs /\ child.state \in {"running", "exited"})
            => pipe = Some(child.pid)
       /\ (last_delivery # None /\ The(last_delivery).at \in LivePcs)
            => The(last_delivery).to # None

\* The handler installed before returns when _handler calls it or passes it
\* by; the child has ended with the return code of a death by signal.
HandlerReturns == ~(old_handler = Some("SIG_DFL") /\ signal_id = Some(SIGTERM))
DiedOfSignal == child.state \in {"exited", "reaped"} /\ child.code < 0
\* A step of the call in progress that does not end the controller.
Proceeds == pc' # pc /\ pc' # "exited"

\* C24: a child that the forwarded signal has killed ends with a refused
\* return code: get_output never returns on it, the attempt fails as any
\* other, and with a retry left the retry_handler is called with the attempt
\* number, the call sleeps and goes on to the next attempt; a signal
\* delivered during that sleep, whose old handler returns, is sent to no one
\* and changes nothing of the call, which can still go on to spawn.
C24_SignalDeathIsRetried ==
  /\ [](DiedOfSignal
          => (child.signalled /\ child.code = 0 - The(signal_id)))
  /\ []((pc = "idle" /\ outcome.kind = "return") => ~DiedOfSignal)
  /\ [][(pc = "join" /\ DiedOfSignal /\ Proceeds)
         => (pc' = "except" /\ exc' # None
             /\ The(exc').ret = Some(child.code))]_vars
  /\ [][(pc = "except" /\ DiedOfSignal /\ attempt < retry_times /\ Proceeds)
         => (pc' = "sleep" /\ called' = Append(called, attempt)
             /\ The(seen').exc.ret = Some(child.code))]_vars
  /\ [][(pc = "sleep" /\ Proceeds)
         => (pc' = "attempting" /\ attempt' = attempt + 1
             /\ slept' = slept + 1)]_vars
  /\ [][(Delivered /\ pc = "sleep" /\ HandlerReturns)
         => (pc' = "sleep" /\ The(last_delivery').to = None
             /\ UNCHANGED <<cmdvars, child, attempt, ghostvars>>)]_vars
  /\ [](pc = "sleep" => ENABLED sleep)
  /\ [](pc = "attempting" => ENABLED execute_enter)
  /\ [](pc = "build_pipe" => ENABLED build_pipe)
\* The first child was killed by the forwarded SIGTERM, the retry_handler was
\* called, a second SIGTERM came during the sleep, and the second attempt is
\* about to spawn its child.
C24_Witness ==
  /\ pc = "build_pipe" /\ attempt = 1 /\ slept = 1 /\ called = <<0>>
  /\ child.state = "reaped" /\ child.code = 0 - SIGTERM
  /\ The(last_delivery).at = "sleep" /\ nsignals = MaxSignals
  /\ chained = MaxSignals

\* The Command is blocked in the write of stdin: bytes are left to write and
\* the input pipe is full. The child is blocked in a write: it has bytes to
\* write on a stream whose pipe is full.
WriterBlocked ==
  /\ pc = "feed"
  /\ Len(child.stdin) < Len(Supplied)
  /\ Len(child.stdin) - child.stdin_read >= PipeCap
ChildBlocked ==
  /\ child.state = "running"
  /\ \E s \in StreamSet : child.owes[s] > 0 /\ child.unread[s] >= PipeCap

\* C25: while stdin is being written the Command and the child are never
\* both blocked, the Command in its write of stdin and the child in a write
\* of output or error that nobody reads yet, whatever the size of stdin and
\* of the pipes: the attempt of a child that reads its input, writes finite
\* output and exits always goes on.
C25_FeedNeverDeadlocks == ~(WriterBlocked /\ ChildBlocked)

====
